---------------------------- MODULE Spec2Model ----------------------------
(***************************************************************************)
(* Atlas mobile: the auto-saving encounter cards of Home.js, the           *)
(* firestorePeople helpers they save through, and the remote document      *)
(* store behind them.                                                      *)
(*                                                                         *)
(* A text is a sequence of one-character strings.  A fact {text} is        *)
(* modelled by its text.  A null id is 0.  Every card of one session is    *)
(* dated today; a card's date is the logical time of its creation.         *)
(***************************************************************************)
EXTENDS Integers, Sequences, FiniteSets, TLC

-----------------------------------------------------------------------------
(* Bounds of the model.                                                    *)

\* edits, flushes and removals the user makes in one session
MaxEdits == 3
\* timers setTimeout hands out in one session
MaxTimers == 3
\* local client ids generateClientId hands out in one session
MaxLocalIds == 4
\* sequential upsertPersonByName calls of the resolver scenario
MaxUpserts == 3
\* identifiers built in the composite-key scenario
MaxIdentifiers == 3
\* saveEntry and upsertPerson calls of the personHandlers.js scenario
MaxHandlerCalls == 2
\* instants the clock of the personHandlers.js scenario goes through
MaxClock == 2

-----------------------------------------------------------------------------
(* Texts.                                                                  *)

SP == " "
TAB == "\t"
\* U+0301, the combining acute accent
COMB == "comb"
WhiteSpace == {SP, TAB}
CombiningMarks == {COMB}

Empty == <<>>

RECURSIVE TrimStart(_)
TrimStart(s) ==
  IF s = <<>> THEN <<>>
  ELSE IF Head(s) \in WhiteSpace THEN TrimStart(Tail(s)) ELSE s

RECURSIVE TrimEnd(_)
TrimEnd(s) ==
  IF s = <<>> THEN <<>>
  ELSE IF s[Len(s)] \in WhiteSpace THEN TrimEnd(SubSeq(s, 1, Len(s) - 1)) ELSE s

\* String.prototype.trim
Trim(s) == TrimEnd(TrimStart(s))

\* fullName.trim().split(/\s+/).filter(Boolean).length
TokenCount(s) ==
  Cardinality({i \in 1..Len(s) :
                 /\ s[i] \notin WhiteSpace
                 /\ (i = 1 \/ s[i - 1] \in WhiteSpace)})

hasLastName(fullName) == TokenCount(Trim(fullName)) >= 2

buildDisplayName(name, memo) ==
  LET trimmedName == Trim(name)
      trimmedMemo == Trim(memo)
  IN IF trimmedMemo # <<>> /\ (trimmedName = <<>> \/ ~hasLastName(trimmedName))
     THEN IF trimmedName # <<>>
          THEN trimmedName \o <<SP, "-", SP>> \o trimmedMemo
          ELSE trimmedMemo
     ELSE trimmedName

-----------------------------------------------------------------------------
(* Cards (Home.js).                                                        *)

\* normalizeFactsForState without the trailing blank slot it ensures
normalizeFactsNoSlot(facts) ==
  IF facts = <<>> THEN <<Empty>>
  ELSE LET kept == SelectSeq(SubSeq(facts, 1, Len(facts) - 1),
                             LAMBDA text : Trim(text) # <<>>)
                   \o <<facts[Len(facts)]>>
       IN kept

\* normalizeFactsForState keeping the blank facts before the last one
normalizeFactsKeepBlanks(facts) ==
  LET ensured == IF Len(facts) > 0 THEN facts ELSE <<Empty>>
  IN IF Trim(ensured[Len(ensured)]) # <<>> THEN Append(ensured, Empty) ELSE ensured

normalizeFactsForState(facts) ==
  LET prepared == facts
      \* filter: the text is not blank, or the index is the last one
      compacted == IF prepared = <<>> THEN <<>>
                   ELSE SelectSeq(SubSeq(prepared, 1, Len(prepared) - 1),
                                  LAMBDA text : Trim(text) # <<>>)
                        \o <<prepared[Len(prepared)]>>
      ensured == IF Len(compacted) > 0 THEN compacted ELSE <<Empty>>
  IN IF Trim(ensured[Len(ensured)]) # <<>> THEN Append(ensured, Empty) ELSE ensured

\* orderIndex is the 0-based index in the card's fact list
buildFactsPayload(facts) ==
  LET mapped == [i \in 1..Len(facts) |->
                   [orderIndex |-> i - 1, text |-> Trim(facts[i])]]
  IN SelectSeq(mapped, LAMBDA fact : Len(fact.text) > 0)

hasMeaningfulContent(card) ==
  \/ Trim(card.personName) # <<>>
  \/ Trim(card.memo) # <<>>
  \/ Trim(card.placeLabel) # <<>>
  \/ Len(buildFactsPayload(card.facts)) > 0

LocalId(n) == <<"local", n>>
EncId(e) == <<"enc", e>>

createBlankCard(n) ==
  [clientId |-> LocalId(n), encounterId |-> 0, personId |-> 0,
   personName |-> Empty, memo |-> Empty, placeLabel |-> Empty,
   facts |-> normalizeFactsForState(<<>>),
   isNew |-> TRUE, needsSave |-> FALSE, date |-> n]

isBlankCard(card) ==
  ~hasMeaningfulContent(card) /\ card.encounterId = 0 /\ card.personId = 0

\* needsBlankCard pushing a blank card whatever the last card is
needsBlankCardAlways(trimmed) == TRUE

\* whether ensureTrailingBlankCard appends a new blank card to the filtered list
needsBlankCard(trimmed) ==
  \/ Len(trimmed) = 0
  \/ hasMeaningfulContent(trimmed[Len(trimmed)])
  \/ trimmed[Len(trimmed)].encounterId # 0

\* dropBlankCards keeping every card
keepBlankCards(list) == list

\* filter: the card is not blank, or it is the last one
dropBlankCards(list) ==
  IF list = <<>> THEN <<>>
  ELSE SelectSeq(SubSeq(list, 1, Len(list) - 1), LAMBDA card : ~isBlankCard(card))
       \o <<list[Len(list)]>>

\* n is the number the next generated client id carries
ensureTrailingBlankCard(cardList, n) ==
  LET trimmed == dropBlankCards(cardList)
      pushed == IF needsBlankCard(trimmed)
                THEN Append(trimmed, createBlankCard(n)) ELSE trimmed
  IN [i \in 1..Len(pushed) |->
        [pushed[i] EXCEPT !.facts = normalizeFactsForState(pushed[i].facts)]]

normalizeCard(card) == [card EXCEPT !.facts = normalizeFactsForState(card.facts)]

\* shouldPersistCard asking for a display name only
shouldPersistNamed(card) == buildDisplayName(card.personName, card.memo) # <<>>

shouldPersistCard(card) ==
  LET displayName == buildDisplayName(card.personName, card.memo)
      factsPayload == buildFactsPayload(card.facts)
      place == Trim(card.placeLabel)
  IN displayName # <<>> /\ (Len(factsPayload) > 0 \/ place # <<>>)

-----------------------------------------------------------------------------
(* The remote store and the firestorePeople helpers.                       *)
(* A document is a function from field names to values; a collection is    *)
(* the sequence of its documents in creation (createdAt) order, and a      *)
(* document's id is its position.  Documents are never deleted.            *)

\* {...a, ...b}; also updateDoc(ref, b) on a stored document a
Merge(a, b) ==
  [k \in DOMAIN a \cup DOMAIN b |-> IF k \in DOMAIN b THEN b[k] ELSE a[k]]

\* String.prototype.toLowerCase on the characters of the model
LowerChar(c) ==
  CASE c = "A" -> "a"
    [] c = "G" -> "g"
    [] c = "A_acute" -> "a_acute"
    [] OTHER -> c

\* String.prototype.normalize('NFD') on one character
DecomposeChar(c) == IF c = "a_acute" THEN <<"a", COMB>> ELSE <<c>>

RECURSIVE FlatMap(_, _)
FlatMap(s, i) ==
  IF i > Len(s) THEN <<>> ELSE DecomposeChar(s[i]) \o FlatMap(s, i + 1)

\* .replace(/\s+/g, ' ')
RECURSIVE CollapseSpaces(_)
CollapseSpaces(s) ==
  IF s = <<>> THEN <<>>
  ELSE IF Head(s) \in WhiteSpace
       THEN <<SP>> \o CollapseSpaces(TrimStart(s))
       ELSE <<Head(s)>> \o CollapseSpaces(Tail(s))

normalizePersonName(rawName) ==
  LET trimmed == Trim(rawName)
      lowered == [i \in 1..Len(trimmed) |-> LowerChar(trimmed[i])]
      decomposed == FlatMap(lowered, 1)
      stripped == SelectSeq(decomposed, LAMBDA c : c \notin CombiningMarks)
  IN CollapseSpaces(stripped)

\* the payload facts keep the orderIndex they carry
normalizeFacts(facts) ==
  SelectSeq([i \in 1..Len(facts) |->
               [orderIndex |-> facts[i].orderIndex, text |-> Trim(facts[i].text)]],
            LAMBDA fact : Len(fact.text) > 0)

\* findPersonByName matching the trimmed input against normalizedName
findPersonByRawName(peopleDocs, inputName) ==
  LET hits == {i \in 1..Len(peopleDocs) : peopleDocs[i].normalizedName = Trim(inputName)}
  IN IF hits = {} THEN 0 ELSE CHOOSE i \in hits : \A j \in hits : i <= j

\* the id of the first people document (by createdAt) with the normalized
\* name of inputName, or 0
findPersonByName(peopleDocs, inputName) ==
  LET normalizedName == normalizePersonName(inputName)
      hits == {i \in 1..Len(peopleDocs) : peopleDocs[i].normalizedName = normalizedName}
  IN IF hits = {} THEN 0 ELSE CHOOSE i \in hits : \A j \in hits : i <= j

\* the people document createPerson adds at the instant now
createPersonPayload(displayName, extra, now) ==
  Merge(extra, [displayName |-> Trim(displayName),
                normalizedName |-> normalizePersonName(displayName),
                createdAt |-> now,
                updatedAt |-> now])

\* the fields upsertPersonByName updates on the document it found
upsertUpdates(displayName, extra, now) ==
  Merge(extra, [displayName |-> Trim(displayName),
                normalizedName |-> normalizePersonName(Trim(displayName)),
                updatedAt |-> now])

\* upsertPersonWrite overwriting the document it found, as setDoc does
upsertPersonReplace(peopleDocs, existing, displayName, extra, now) ==
  IF existing # 0
  THEN [peopleDocs EXCEPT ![existing] = createPersonPayload(Trim(displayName), extra, now)]
  ELSE Append(peopleDocs, createPersonPayload(Trim(displayName), extra, now))

\* the people collection after the write upsertPersonByName makes at the
\* instant now, given the id its lookup returned
upsertPersonWrite(peopleDocs, existing, displayName, extra, now) ==
  IF existing # 0
  THEN [peopleDocs EXCEPT ![existing] = Merge(@, upsertUpdates(displayName, extra, now))]
  ELSE Append(peopleDocs, createPersonPayload(Trim(displayName), extra, now))

\* the id of the Person upsertPersonByName returns
upsertPersonId(peopleDocs, existing) ==
  IF existing # 0 THEN existing ELSE Len(peopleDocs) + 1

\* the encounters document createEncounter adds
createEncounterPayload(peopleDocs, input) ==
  [personId |-> input.personId,
   personName |-> IF Trim(input.personName) # <<>> THEN Trim(input.personName)
                  ELSE peopleDocs[input.personId].displayName,
   date |-> input.date,
   placeLabel |-> Trim(input.placeLabel),
   facts |-> normalizeFacts(input.facts)]

\* the fields updateEncounter writes
updateEncounterPayload(updates) ==
  Merge(updates, [facts |-> normalizeFacts(updates.facts),
                  placeLabel |-> Trim(updates.placeLabel)])

\* stable insertion sort by orderIndex
RECURSIVE SortFacts(_)
SortFacts(facts) ==
  IF facts = <<>> THEN <<>>
  ELSE LET rest == SortFacts(SubSeq(facts, 1, Len(facts) - 1))
           last == facts[Len(facts)]
           k == Cardinality({i \in 1..Len(rest) : rest[i].orderIndex <= last.orderIndex})
       IN SubSeq(rest, 1, k) \o <<last>> \o SubSeq(rest, k + 1, Len(rest))

\* mapEncounterDoc, then mapEncounterToCard, of the encounters document id
mapEncounterToCard(encounterDocs, id) ==
  LET data == encounterDocs[id]
      orderedFacts == SortFacts([i \in 1..Len(data.facts) |->
                        [orderIndex |-> data.facts[i].orderIndex,
                         text |-> Trim(data.facts[i].text)]])
  IN [clientId |-> EncId(id), encounterId |-> id, personId |-> data.personId,
      personName |-> data.personName, memo |-> Empty,
      placeLabel |-> data.placeLabel,
      facts |-> normalizeFactsForState(
                  [i \in 1..Len(orderedFacts) |-> orderedFacts[i].text]),
      isNew |-> FALSE, needsSave |-> FALSE, date |-> data.date]

-----------------------------------------------------------------------------
(* State.                                                                  *)

VARIABLES
  cards,        \* useState cards; cardsRef.current follows it after each render
  saveStatus,   \* useState saveStatus: clientId -> "saving" | "saved" | "error"
  timersRef,    \* timersRef.current: clientId -> timeout id
  armed,        \* the timeouts set and neither fired nor cleared: [id, key]
  timerSeq,     \* timeout ids handed out so far
  clientSeq,    \* local client ids handed out so far
  calls,        \* the persistCard invocations waiting on a remote call
  people,       \* users/{userId}/people
  encounters,   \* users/{userId}/encounters
  createdBy,    \* history: per encounters document, the clientId whose save created it
  configured,   \* isFirebaseConfigured
  mounted,      \* Home is mounted
  loadPc,       \* loadTodayEncounters: "init", "query", "apply", "done"
  loadResult,   \* the value getEncountersByDateRange resolved or rejected with
  edits,        \* user actions so far
  lateEvents,   \* history: what started after unmount
  lastEdit,     \* history: per clientId, the snapshot last passed to queueSave
  returned,     \* the resolver scenarios: what the calls made so far returned
  legacyPeople, \* personHandlers.js: the collection people
  peopleIds,    \* personHandlers.js: the collection peopleIds
  entries,      \* personHandlers.js: people/{personId}/entries, by <<personId, id>>
  handlerCalls, \* the saveEntry and upsertPerson calls waiting on a store call
  handlerSeq,   \* saveEntry and upsertPerson calls made so far
  legacyLog,    \* history: the store calls, warnings and returns of the handlers
  clock,        \* the instant now() returns
  hasQuery      \* getDocumentsByField was given to createPersonHandlers

\* the state of Home.js and of the firestorePeople store
homeVars == <<cards, saveStatus, timersRef, armed, timerSeq, clientSeq, calls, people,
              encounters, createdBy, configured, mounted, loadPc, loadResult, edits,
              lateEvents, lastEdit, returned>>

\* the state of the personHandlers.js scenario
legacyVars == <<legacyPeople, peopleIds, entries, handlerCalls, handlerSeq,
                legacyLog, clock, hasQuery>>

vars == <<homeVars, legacyVars>>

\* no handler of personHandlers.js is in use
LegacyIdle ==
  /\ legacyPeople = <<>>
  /\ peopleIds = <<>>
  /\ entries = [k \in {} |-> 0]
  /\ handlerCalls = {}
  /\ handlerSeq = 0
  /\ legacyLog = <<>>
  /\ clock = 1
  /\ hasQuery = TRUE

storeVars == <<people, encounters, createdBy>>
timerVars == <<timersRef, armed, timerSeq>>
loadVars == <<loadPc, loadResult>>

EmptyMap == [k \in {} |-> 0]
Put(f, k, v) == [x \in DOMAIN f \cup {k} |-> IF x = k THEN v ELSE f[x]]
Remove(f, k) == [x \in DOMAIN f \ {k} |-> f[x]]
Get(f, k) == IF k \in DOMAIN f THEN f[k] ELSE 0

\* cards.findIndex((c) => c.clientId === clientId), 1-based; 0 when absent
findIndex(list, clientId) ==
  LET hits == {i \in 1..Len(list) : list[i].clientId = clientId}
  IN IF hits = {} THEN 0 ELSE CHOOSE i \in hits : \A j \in hits : i <= j

ClientIds(list) == {list[i].clientId : i \in 1..Len(list)}

\* the texts a user types in the model
NameInputs == {Empty, <<SP>>, <<"a", SP, "g">>}
MemoInputs == {Empty, <<"m">>}
PlaceInputs == {Empty, <<"q", SP>>}
FactInputs == {Empty, <<SP>>, <<"f">>}

UnspecifiedPlace ==
  <<"U", "n", "s", "p", "e", "c", "i", "f", "i", "e", "d", SP, "p", "l", "a", "c", "e">>

\* what a session may find in the store: nothing, or one person met today
SeedPerson ==
  [displayName |-> <<"a", SP, "g">>, normalizedName |-> <<"a", SP, "g">>,
   createdAt |-> 0, updatedAt |-> 0]
SeedEncounter ==
  [personId |-> 1, personName |-> <<"a", SP, "g">>, date |-> 0,
   placeLabel |-> <<"p">>, facts |-> <<[orderIndex |-> 0, text |-> <<"f">>]>>]
SeedId == <<"seed", 0>>

Init ==
  /\ cards = <<createBlankCard(1)>>
  /\ clientSeq = 1
  /\ saveStatus = EmptyMap
  /\ timersRef = EmptyMap
  /\ armed = {}
  /\ timerSeq = 0
  /\ calls = {}
  /\ configured \in BOOLEAN
  /\ \/ people = <<>> /\ encounters = <<>> /\ createdBy = <<>>
     \/ /\ configured
        /\ people = <<SeedPerson>>
        /\ encounters = <<SeedEncounter>>
        /\ createdBy = <<SeedId>>
  /\ mounted = TRUE
  /\ loadPc = "init"
  /\ loadResult = <<>>
  /\ edits = 0
  /\ lateEvents = {}
  /\ lastEdit = EmptyMap
  /\ returned = <<>>
  /\ LegacyIdle

\* time passes: Timestamp.now() and now() return a later instant
Tick ==
  /\ clock < MaxClock
  /\ clock' = clock + 1
  /\ UNCHANGED <<homeVars, legacyPeople, peopleIds, entries, handlerCalls,
                 handlerSeq, legacyLog, hasQuery>>

-----------------------------------------------------------------------------
(* The card list and the scheduler (Home.js).                              *)

\* setCards(list): a state update of an unmounted component is dropped.  A
\* blank card created for list carries the local id clientSeq + 1.
SetCards(list) ==
  IF mounted
  THEN /\ cards' = list
       /\ clientSeq' = IF LocalId(clientSeq + 1) \in ClientIds(list)
                       THEN clientSeq + 1 ELSE clientSeq
       /\ clientSeq' <= MaxLocalIds
  ELSE UNCHANGED <<cards, clientSeq>>

\* the content of a cardSnapshot passed to queueSave, and its encounterId
Snapshot(card) ==
  [personName |-> card.personName, memo |-> card.memo,
   placeLabel |-> card.placeLabel, facts |-> card.facts,
   encounterId |-> card.encounterId]

\* history: the snapshot of each listed card that its last edit or flush
\* passed to queueSave
NoteEdit(clientId, snapshot) ==
  lastEdit' = [k \in (DOMAIN lastEdit \cup {clientId}) \cap ClientIds(cards') |->
                 IF k = clientId THEN Snapshot(snapshot) ELSE lastEdit[k]]

SetSaveStatus(clientId, status) ==
  saveStatus' = IF mounted THEN Put(saveStatus, clientId, status) ELSE saveStatus

\* queueSave(cardSnapshot, delay)
queueSave(cardSnapshot) ==
  LET key == cardSnapshot.clientId
      existingTimer == Get(timersRef, key)
      cleared == {t \in armed : t.id # existingTimer}
  IN IF ~shouldPersistCard(cardSnapshot)
     THEN /\ armed' = cleared
          /\ timersRef' = Remove(timersRef, key)
          /\ timerSeq' = timerSeq
     ELSE /\ timerSeq < MaxTimers
          /\ armed' = cleared \cup {[id |-> timerSeq + 1, key |-> key]}
          /\ timersRef' = Put(timersRef, key, timerSeq + 1)
          /\ timerSeq' = timerSeq + 1

\* updateCardById(clientId, updater, immediateSave), updated = updater(card)
updateCardById(clientId, updated) ==
  LET idx == findIndex(cards, clientId)
      updatedCard == normalizeCard(updated)
      snapshot == [updatedCard EXCEPT !.needsSave = TRUE]
      nextCards == [cards EXCEPT ![idx] = snapshot]
  IN /\ idx # 0
     /\ SetCards(ensureTrailingBlankCard(nextCards, clientSeq + 1))
     /\ queueSave(snapshot)
     /\ NoteEdit(clientId, snapshot)

UserAction ==
  /\ mounted
  /\ loadPc # "init"
  /\ edits < MaxEdits
  /\ edits' = edits + 1
  /\ UNCHANGED <<saveStatus, calls, storeVars, configured, mounted, loadVars,
                 lateEvents, returned,
                 legacyVars>>

\* onChangeText of the name, memo and place inputs
EditName(i, text) ==
  /\ UserAction
  /\ text # cards[i].personName
  /\ updateCardById(cards[i].clientId, [cards[i] EXCEPT !.personName = text])

EditMemo(i, text) ==
  /\ UserAction
  /\ text # cards[i].memo
  /\ updateCardById(cards[i].clientId, [cards[i] EXCEPT !.memo = text])

EditPlace(i, text) ==
  /\ UserAction
  /\ text # cards[i].placeLabel
  /\ updateCardById(cards[i].clientId, [cards[i] EXCEPT !.placeLabel = text])

\* handleFactChange(clientId, factIndex, text)
handleFactChange(i, factIndex, text) ==
  /\ UserAction
  /\ text # cards[i].facts[factIndex]
  /\ updateCardById(cards[i].clientId,
                    [cards[i] EXCEPT !.facts = [@ EXCEPT ![factIndex] = text]])

\* the "+ Fact" button
AddFact(i) ==
  /\ UserAction
  /\ updateCardById(cards[i].clientId,
       [cards[i] EXCEPT !.facts = normalizeFactsForState(Append(@, Empty))])

\* onSubmitEditing of a fact input with no fact after it
SubmitFact(i, factIndex) ==
  /\ UserAction
  /\ factIndex >= Len(cards[i].facts)
  /\ updateCardById(cards[i].clientId,
       [cards[i] EXCEPT !.facts = Append(@, Empty)])

\* removeFactAt dropping the first entry whatever the index
removeFactFirst(facts, factIndex) ==
  IF Len(facts) <= 1 THEN <<Empty>>
  ELSE SubSeq(facts, 2, Len(facts))

\* the facts handleRemoveFact's updater returns
removeFactAt(facts, factIndex) ==
  IF Len(facts) <= 1 THEN <<Empty>>
  ELSE SubSeq(facts, 1, factIndex - 1) \o SubSeq(facts, factIndex + 1, Len(facts))

handleRemoveFact(i, factIndex) ==
  /\ UserAction
  /\ updateCardById(cards[i].clientId,
                    [cards[i] EXCEPT !.facts = removeFactAt(@, factIndex)])

\* onEndEditing: queueSave(cardsRef.current.find(...), 150)
Flush(i) ==
  /\ UserAction
  /\ queueSave(cards[i])
  /\ UNCHANGED <<cards, clientSeq>>
  /\ NoteEdit(cards[i].clientId, cards[i])

\* the cleanup of the mount effect
Unmount ==
  /\ mounted
  /\ loadPc # "init"
  /\ mounted' = FALSE
  /\ armed' = {t \in armed : \A k \in DOMAIN timersRef : timersRef[k] # t.id}
  /\ timersRef' = EmptyMap
  /\ UNCHANGED <<cards, saveStatus, timerSeq, clientSeq, calls, storeVars,
                 configured, loadVars, edits, lateEvents, lastEdit, returned,
                 legacyVars>>

-----------------------------------------------------------------------------
(* persistCard: a timer fires, then three remote calls in turn.  A remote  *)
(* call takes effect in the store and resumes its caller in one step, or   *)
(* rejects with no effect.                                                 *)

\* the card of the list with this clientId, read through cardsRef
CardOf(clientId) == cards[findIndex(cards, clientId)]

\* newCall reading the snapshot queueSave was given instead of the card
newCallFromSnapshot(timer, latestCard) ==
  LET cardSnapshot == IF latestCard.clientId \in DOMAIN lastEdit
                      THEN lastEdit[latestCard.clientId] ELSE latestCard
  IN [timer |-> timer.id,
      clientId |-> latestCard.clientId,
      pc |-> "find",
      displayName |-> buildDisplayName(cardSnapshot.personName, cardSnapshot.memo),
      extra |-> IF Trim(cardSnapshot.memo) # <<>>
                THEN [memo |-> Trim(cardSnapshot.memo)] ELSE EmptyMap,
      place |-> Trim(cardSnapshot.placeLabel),
      facts |-> buildFactsPayload(cardSnapshot.facts),
      date |-> latestCard.date,
      encounterId |-> cardSnapshot.encounterId,
      existing |-> 0,
      personId |-> 0]

\* the invocation persistCard(clientId) becomes when it goes on to the store
newCall(timer, latestCard) ==
  [timer |-> timer.id,
   clientId |-> latestCard.clientId,
   pc |-> "find",
   displayName |-> buildDisplayName(latestCard.personName, latestCard.memo),
   extra |-> IF Trim(latestCard.memo) # <<>>
             THEN [memo |-> Trim(latestCard.memo)] ELSE EmptyMap,
   place |-> Trim(latestCard.placeLabel),
   facts |-> buildFactsPayload(latestCard.facts),
   date |-> latestCard.date,
   encounterId |-> latestCard.encounterId,
   existing |-> 0,
   personId |-> 0]

\* persistStarts without the isFirebaseConfigured test
persistStartsAnyway(clientId) ==
  /\ findIndex(cards, clientId) # 0
  /\ shouldPersistCard(CardOf(clientId))

\* whether persistCard(clientId) goes past its first return
persistStarts(clientId) ==
  /\ findIndex(cards, clientId) # 0
  /\ shouldPersistCard(CardOf(clientId))
  /\ configured

Late(what) == lateEvents' = IF mounted THEN lateEvents ELSE lateEvents \cup what

\* the callback of setTimeout(() => persistCard(key), delay)
FireTimer(t) ==
  /\ t \in armed
  /\ armed' = armed \ {t}
  /\ IF persistStarts(t.key)
     THEN /\ SetSaveStatus(t.key, "saving")
          /\ calls' = calls \cup {newCall(t, CardOf(t.key))}
          /\ UNCHANGED timersRef
     ELSE /\ timersRef' = Remove(timersRef, t.key)
          /\ UNCHANGED <<saveStatus, calls>>
  /\ Late({"persistCard"})
  /\ UNCHANGED <<cards, timerSeq, clientSeq, storeVars, configured, mounted,
                 loadVars, edits, lastEdit, returned,
                 legacyVars>>

\* await findPersonByName(userId, displayName) resolves
FindPerson(c) ==
  /\ c \in calls
  /\ c.pc = "find"
  /\ calls' = (calls \ {c}) \cup
                {[c EXCEPT !.pc = "upsert",
                           !.existing = findPersonByName(people, c.displayName)]}
  /\ UNCHANGED <<cards, saveStatus, timerVars, clientSeq, storeVars, configured,
                 mounted, loadVars, edits, lateEvents, lastEdit, returned,
                 legacyVars>>

\* await updateDocument(people, existing.id, updates), or createPerson, resolves
UpsertPerson(c) ==
  /\ c \in calls
  /\ c.pc = "upsert"
  /\ people' = upsertPersonWrite(people, c.existing, c.displayName, c.extra, clock)
  /\ calls' = (calls \ {c}) \cup
                {[c EXCEPT !.pc = "encounter",
                           !.personId = upsertPersonId(people, c.existing)]}
  /\ Late({"write"})
  /\ UNCHANGED <<cards, saveStatus, timerVars, clientSeq, encounters, createdBy,
                 configured, mounted, loadVars, edits, lastEdit, returned,
                 legacyVars>>

\* the encounterPayload persistCard builds
encounterPayload(c) ==
  [personId |-> c.personId,
   personName |-> Trim(c.displayName),
   date |-> c.date,
   placeLabel |-> IF c.place # <<>> THEN c.place ELSE UnspecifiedPlace,
   facts |-> c.facts]

\* the setCards updater after updateEncounter
markUpdated(list, clientId, personId, n) ==
  LET idx == findIndex(list, clientId)
  IN IF idx = 0 THEN list
     ELSE ensureTrailingBlankCard(
            [list EXCEPT ![idx] = [@ EXCEPT !.personId = personId,
                                            !.isNew = FALSE,
                                            !.needsSave = FALSE]], n)

\* markCreated leaving the card flagged as unsaved
markCreatedDirty(list, clientId, createdId, personId, n) ==
  LET idx == findIndex(list, clientId)
  IN IF idx = 0 THEN list
     ELSE ensureTrailingBlankCard(
            [list EXCEPT ![idx] = [@ EXCEPT !.encounterId = createdId,
                                            !.personId = personId,
                                            !.isNew = FALSE]], n)

\* markCreated keying the saved card by its encounter, as a loaded card is
markCreatedRekeyed(list, clientId, createdId, personId, n) ==
  LET idx == findIndex(list, clientId)
  IN IF idx = 0 THEN list
     ELSE ensureTrailingBlankCard(
            [list EXCEPT ![idx] = [@ EXCEPT !.clientId = EncId(createdId),
                                            !.encounterId = createdId,
                                            !.personId = personId,
                                            !.isNew = FALSE,
                                            !.needsSave = FALSE]], n)

\* the setCards updater after createEncounter
markCreated(list, clientId, createdId, personId, n) ==
  LET idx == findIndex(list, clientId)
  IN IF idx = 0 THEN list
     ELSE ensureTrailingBlankCard(
            [list EXCEPT ![idx] = [@ EXCEPT !.encounterId = createdId,
                                            !.personId = personId,
                                            !.isNew = FALSE,
                                            !.needsSave = FALSE]], n)

\* the list with the place the call saved written back to its card
placeWrittenBack(list, c) ==
  LET idx == findIndex(list, c.clientId)
  IN IF idx = 0 THEN list ELSE [list EXCEPT ![idx] = [@ EXCEPT !.placeLabel = c.place]]

\* SaveEncounter whose completion also writes the saved place back to the card
SaveEncounterWriteBack(c) ==
  /\ c \in calls
  /\ c.pc = "encounter"
  /\ IF c.encounterId # 0
     THEN /\ encounters' = [encounters EXCEPT ![c.encounterId] =
                              Merge(@, updateEncounterPayload(encounterPayload(c)))]
          /\ UNCHANGED createdBy
          /\ SetCards(markUpdated(placeWrittenBack(cards, c), c.clientId, c.personId,
                                  clientSeq + 1))
     ELSE /\ encounters' = Append(encounters,
                              createEncounterPayload(people, encounterPayload(c)))
          /\ createdBy' = Append(createdBy, c.clientId)
          /\ SetCards(markCreated(placeWrittenBack(cards, c), c.clientId,
                                  Len(encounters) + 1, c.personId, clientSeq + 1))
  /\ SetSaveStatus(c.clientId, "saved")
  /\ timersRef' = Remove(timersRef, c.clientId)
  /\ calls' = calls \ {c}
  /\ Late({"write"})
  /\ UNCHANGED <<armed, timerSeq, people, configured, mounted, loadVars, edits,
                 lastEdit, returned,
                 legacyVars>>

\* await updateEncounter, or createEncounter, resolves; then the rest of persistCard
SaveEncounter(c) ==
  /\ c \in calls
  /\ c.pc = "encounter"
  /\ IF c.encounterId # 0
     THEN /\ encounters' = [encounters EXCEPT ![c.encounterId] =
                              Merge(@, updateEncounterPayload(encounterPayload(c)))]
          /\ UNCHANGED createdBy
          /\ SetCards(markUpdated(cards, c.clientId, c.personId, clientSeq + 1))
     ELSE /\ encounters' = Append(encounters,
                              createEncounterPayload(people, encounterPayload(c)))
          /\ createdBy' = Append(createdBy, c.clientId)
          /\ SetCards(markCreated(cards, c.clientId, Len(encounters) + 1,
                                  c.personId, clientSeq + 1))
  /\ SetSaveStatus(c.clientId, "saved")
  /\ timersRef' = Remove(timersRef, c.clientId)
  /\ calls' = calls \ {c}
  /\ Late({"write"})
  /\ UNCHANGED <<armed, timerSeq, people, configured, mounted, loadVars, edits,
                 lastEdit, returned,
                 legacyVars>>

\* FailCall without the catch block: the rejection leaves the status alone
FailCallQuiet(c) ==
  /\ c \in calls
  /\ timersRef' = Remove(timersRef, c.clientId)
  /\ calls' = calls \ {c}
  /\ UNCHANGED <<cards, saveStatus, armed, timerSeq, clientSeq, storeVars,
                 configured, mounted, loadVars, edits, lateEvents, lastEdit,
                 returned,
                 legacyVars>>

\* FailCall with a retry: the catch block arms a new timer for the card
FailCallRetry(c) ==
  /\ c \in calls
  /\ timerSeq < MaxTimers
  /\ SetSaveStatus(c.clientId, "error")
  /\ armed' = armed \cup {[id |-> timerSeq + 1, key |-> c.clientId]}
  /\ timersRef' = Put(timersRef, c.clientId, timerSeq + 1)
  /\ timerSeq' = timerSeq + 1
  /\ calls' = calls \ {c}
  /\ UNCHANGED <<cards, clientSeq, storeVars, configured, mounted, loadVars,
                 edits, lateEvents, lastEdit, returned,
                 legacyVars>>

\* FailCall with one status for the screen: the catch block marks every card
FailCallAll(c) ==
  /\ c \in calls
  /\ saveStatus' = [k \in DOMAIN saveStatus \cup ClientIds(cards) |-> "error"]
  /\ timersRef' = Remove(timersRef, c.clientId)
  /\ calls' = calls \ {c}
  /\ UNCHANGED <<cards, armed, timerSeq, clientSeq, storeVars, configured, mounted,
                 loadVars, edits, lateEvents, lastEdit, returned,
                 legacyVars>>

\* the remote call the invocation waits on rejects: catch, then finally
FailCall(c) ==
  /\ c \in calls
  /\ SetSaveStatus(c.clientId, "error")
  /\ timersRef' = Remove(timersRef, c.clientId)
  /\ calls' = calls \ {c}
  /\ UNCHANGED <<cards, armed, timerSeq, clientSeq, storeVars, configured, mounted,
                 loadVars, edits, lateEvents, lastEdit, returned,
                 legacyVars>>

-----------------------------------------------------------------------------
(* loadTodayEncounters, run once by the mount effect.                      *)

\* the orders "orderBy date desc" may return the documents in
DateOrders(encounterDocs) ==
  LET n == Len(encounterDocs)
  IN {f \in [1..n -> 1..n] :
        /\ \A i, j \in 1..n : i # j => f[i] # f[j]
        /\ \A i, j \in 1..n : i < j => encounterDocs[f[i]].date >= encounterDocs[f[j]].date}

PruneEdits == lastEdit' = [k \in DOMAIN lastEdit \cap ClientIds(cards') |-> lastEdit[k]]

LoadStart ==
  /\ loadPc = "init"
  /\ IF ~configured
     THEN /\ SetCards(<<createBlankCard(clientSeq + 1)>>)
          /\ loadPc' = "done"
     ELSE /\ loadPc' = "query"
          /\ UNCHANGED <<cards, clientSeq>>
  /\ PruneEdits
  /\ UNCHANGED <<saveStatus, timerVars, calls, storeVars, configured, mounted,
                 loadResult, edits, lateEvents, returned,
                 legacyVars>>

\* the store answers getEncountersByDateRange
LoadQuery ==
  /\ loadPc = "query"
  /\ \E f \in DateOrders(encounters) :
       loadResult' = [i \in 1..Len(encounters) |-> mapEncounterToCard(encounters, f[i])]
  /\ loadPc' = "apply"
  /\ UNCHANGED <<cards, saveStatus, timerVars, clientSeq, calls, storeVars,
                 configured, mounted, edits, lateEvents, lastEdit, returned,
                 legacyVars>>

\* await getEncountersByDateRange resolves
LoadApply ==
  /\ loadPc = "apply"
  /\ SetCards(ensureTrailingBlankCard(loadResult, clientSeq + 1))
  /\ PruneEdits
  /\ loadPc' = "done"
  /\ loadResult' = <<>>
  /\ UNCHANGED <<saveStatus, timerVars, calls, storeVars, configured, mounted,
                 edits, lateEvents, returned,
                 legacyVars>>

\* await getEncountersByDateRange rejects
LoadReject ==
  /\ loadPc = "query"
  /\ SetCards(ensureTrailingBlankCard(<<>>, clientSeq + 1))
  /\ PruneEdits
  /\ loadPc' = "done"
  /\ UNCHANGED <<saveStatus, timerVars, calls, storeVars, configured, mounted,
                 loadResult, edits, lateEvents, returned,
                 legacyVars>>

-----------------------------------------------------------------------------
Edit ==
  \E i \in 1..Len(cards) :
    \/ \E text \in NameInputs : EditName(i, text)
    \/ \E text \in MemoInputs : EditMemo(i, text)
    \/ \E text \in PlaceInputs : EditPlace(i, text)
    \/ \E factIndex \in 1..Len(cards[i].facts), text \in FactInputs :
         handleFactChange(i, factIndex, text)
    \/ AddFact(i)
    \/ \E factIndex \in 1..Len(cards[i].facts) : SubmitFact(i, factIndex)
    \/ \E factIndex \in 1..Len(cards[i].facts) : handleRemoveFact(i, factIndex)
    \/ Flush(i)

Save ==
  \/ \E t \in armed : FireTimer(t)
  \/ \E c \in calls : FindPerson(c)
  \/ \E c \in calls : UpsertPerson(c)
  \/ \E c \in calls : SaveEncounter(c)
  \/ \E c \in calls : FailCall(c)

Load == LoadStart \/ LoadQuery \/ LoadApply \/ LoadReject

\* a session of the mounted screen
Next == Edit \/ Save \/ Load

Spec == Init /\ [][Next]_vars

\* a session in which every remote call succeeds
SaveOk ==
  \/ \E t \in armed : FireTimer(t)
  \/ \E c \in calls : FindPerson(c)
  \/ \E c \in calls : UpsertPerson(c)
  \/ \E c \in calls : SaveEncounter(c)

LoadOk == LoadStart \/ LoadQuery \/ LoadApply

NextReliable == Edit \/ SaveOk \/ LoadOk

SpecReliable == Init /\ [][NextReliable]_vars

\* a session that may end with the screen being unmounted
NextDispose == Next \/ Unmount

SpecDispose == Init /\ [][NextDispose]_vars

-----------------------------------------------------------------------------
(* The resolver on its own: upsertPersonByName called again and again,     *)
(* each call returning before the next one starts.                         *)

UpsertNames ==
  {<<"a">>, <<"A">>, <<SP, "a", TAB>>, <<"a_acute">>, <<"A_acute">>, <<"a", COMB>>,
   <<"a", SP, "g">>, <<"A", SP, SP, "g">>, <<"a", TAB, "G">>, <<"a", "g">>,
   <<COMB, SP, "a">>, <<SP>>}
UpsertExtras == {EmptyMap, [memo |-> <<"m">>]}

\* Home.js idle over an empty, configured store
HomeIdle ==
  /\ cards = <<createBlankCard(1)>>
  /\ clientSeq = 1
  /\ saveStatus = EmptyMap
  /\ timersRef = EmptyMap
  /\ armed = {}
  /\ timerSeq = 0
  /\ calls = {}
  /\ configured = TRUE
  /\ people = <<>>
  /\ encounters = <<>>
  /\ createdBy = <<>>
  /\ mounted = TRUE
  /\ loadPc = "done"
  /\ loadResult = <<>>
  /\ edits = 0
  /\ lateEvents = {}
  /\ lastEdit = EmptyMap
  /\ returned = <<>>

InitUpsert == HomeIdle /\ LegacyIdle

\* upsertPersonByName(userId, displayName, extra), from call to return
upsertPersonByName(displayName, extra) ==
  /\ Len(returned) < MaxUpserts
  /\ LET existing == findPersonByName(people, displayName)
     IN /\ people' = upsertPersonWrite(people, existing, displayName, extra, clock)
        /\ returned' = Append(returned,
                         [name |-> displayName,
                          id |-> upsertPersonId(people, existing)])
  /\ UNCHANGED <<cards, saveStatus, timerVars, clientSeq, calls, encounters,
                 createdBy, configured, mounted, loadVars, edits, lateEvents,
                 lastEdit,
                 legacyVars>>

NextUpsert ==
  \/ \E displayName \in UpsertNames, extra \in UpsertExtras :
       upsertPersonByName(displayName, extra)
  \/ Tick

SpecUpsert == InitUpsert /\ [][NextUpsert]_vars

-----------------------------------------------------------------------------
(* Two drafts of one person: with a configured, empty store the user has   *)
(* typed the same name and a place on two cards, and both save timers are  *)
(* armed.  From there on only the timers and the store act.                *)

\* spellings of one name: they differ and normalize alike
PairNames == {<<"a", SP, "g">>, <<"A", SP, SP, "g">>, <<"a", TAB, "G">>}

\* a card as EditName and EditPlace leave it
draftCard(n, name) ==
  [createBlankCard(n) EXCEPT !.personName = name,
                             !.placeLabel = <<"q", SP>>,
                             !.needsSave = TRUE]

\* the two drafts, with left more actions for the user to make
PairState(name1, name2, left) ==
  /\ cards = <<draftCard(2, name1), draftCard(3, name2), createBlankCard(4)>>
  /\ lastEdit = (LocalId(2) :> Snapshot(draftCard(2, name1))) @@
                (LocalId(3) :> Snapshot(draftCard(3, name2)))
  /\ clientSeq = 4
  /\ saveStatus = EmptyMap
  /\ timersRef = (LocalId(2) :> 1) @@ (LocalId(3) :> 2)
  /\ armed = {[id |-> 1, key |-> LocalId(2)], [id |-> 2, key |-> LocalId(3)]}
  /\ timerSeq = 2
  /\ calls = {}
  /\ configured = TRUE
  /\ people = <<>>
  /\ encounters = <<>>
  /\ createdBy = <<>>
  /\ mounted = TRUE
  /\ loadPc = "done"
  /\ loadResult = <<>>
  /\ edits = MaxEdits - left
  /\ lateEvents = {}
  /\ returned = <<>>
  /\ LegacyIdle

InitPair == \E name1, name2 \in PairNames : PairState(name1, name2, 0)

NextPair == Save

SpecPair == InitPair /\ [][NextPair]_vars

\* The two drafts with one more action of the user, a store whose calls all
\* succeed, and fair scheduling: an armed timer fires and a remote call in
\* flight returns.
InitLive == PairState(<<"a", SP, "g">>, <<"a", SP, "g">>, 1)

NextLive == Edit \/ SaveOk

\* SaveOk can take a step: a timer is armed or a call is in flight
SaveOkEnabled == armed # {} \/ calls # {}

\* weak fairness of SaveOk, WF_vars(SaveOk), with ENABLED <<SaveOk>>_vars
\* written out as SaveOkEnabled
FairSaveOk == []<>(~SaveOkEnabled) \/ []<><<SaveOk>>_vars

SpecLive == InitLive /\ [][NextLive]_vars /\ FairSaveOk

\* The two drafts with two more actions of the user, enough to clear out a
\* draft while its save is in flight, and a store whose calls all succeed.
InitClear == PairState(<<"a", SP, "g">>, <<"a", TAB, "G">>, 2)

SpecClear == InitClear /\ [][NextLive]_vars

-----------------------------------------------------------------------------
(* The composite-key identifier of personHandlers.js: buildIdentifier       *)
(* applied to the person data of one call after another.  hasLastName of    *)
(* personHandlers.js is, line for line, the hasLastName of Home.js.         *)

\* null, as an identifier: no text holds this element
Null == <<"null">>

\* data[key] ?? default
Field(data, key, default) == IF key \in DOMAIN data THEN data[key] ELSE default

normalizePersonData(personData) ==
  [normalizedName |-> Trim(Field(personData, "name", Empty)),
   normalizedMemo |-> Trim(Field(personData, "memo", Empty))]

requireUniqueIdentifier(normalizedName, normalizedMemo) ==
  ~(normalizedMemo = <<>> /\ (normalizedName = <<>> \/ ~hasLastName(normalizedName)))

\* buildIdentifier using name-memo whenever there is a memo
buildIdentifierMemoFirst(normalizedName, normalizedMemo) ==
  IF ~requireUniqueIdentifier(normalizedName, normalizedMemo) THEN Null
  ELSE IF normalizedMemo # <<>> THEN normalizedName \o <<"-">> \o normalizedMemo
  ELSE normalizedName

buildIdentifier(normalizedName, normalizedMemo) ==
  IF ~requireUniqueIdentifier(normalizedName, normalizedMemo) THEN Null
  ELSE IF hasLastName(normalizedName) THEN normalizedName
  ELSE IF normalizedMemo = <<>> THEN Null
  ELSE normalizedName \o <<"-">> \o normalizedMemo

\* the names and memos of the person data
IdentifierNames ==
  {Empty, <<"a">>, <<SP, "a", SP>>, <<"a", SP, "g">>, <<"a", TAB, SP, "g", SP>>,
   <<"a", "-", "g">>}
IdentifierMemos == {Empty, <<SP>>, <<SP, "m">>}

InitIdentifier == InitUpsert

\* const {normalizedName, normalizedMemo} = normalizePersonData(personData);
\* const identifier = buildIdentifier({normalizedName, normalizedMemo}, logger)
Identify(personData) ==
  /\ Len(returned) < MaxIdentifiers
  /\ LET data == normalizePersonData(personData)
     IN returned' = Append(returned,
                      [name |-> personData.name,
                       memo |-> personData.memo,
                       identifier |-> buildIdentifier(data.normalizedName,
                                                      data.normalizedMemo)])
  /\ UNCHANGED <<cards, saveStatus, timerVars, clientSeq, calls, storeVars,
                 configured, mounted, loadVars, edits, lateEvents, lastEdit,
                 legacyVars>>

NextIdentifier ==
  \E name \in IdentifierNames, memo \in IdentifierMemos :
    Identify([name |-> name, memo |-> memo])

SpecIdentifier == InitIdentifier /\ [][NextIdentifier]_vars

-----------------------------------------------------------------------------
(* The handlers of personHandlers.js over the legacy layout: people,       *)
(* peopleIds and people/{personId}/entries.  A people document's id is its  *)
(* position.  now() returns the instant of the clock; the instants 2d - 2   *)
(* and 2d - 1 fall on day d.  A handler runs up to its next store call in one   *)
(* step; a store call takes effect and resumes the handler in one step, or  *)
(* rejects.                                                                *)

\* a field value that is undefined
Undefined == <<"undefined">>
\* a date value no Date can be parsed from
BadDate == <<"bad">>
Instant(n) == <<"instant", n>>
\* the YYYY-MM-DD key of a day
DayKey(d) == <<"day", d>>
\* toISOString().slice(0, 10) of an instant
DayOf(n) == DayKey((n + 2) \div 2)

normalizeEntryDate(dateValue, now) ==
  IF dateValue[1] = "instant" THEN DayOf(dateValue[2]) ELSE DayOf(now)

buildEntryData(data, normalizedName, normalizedMemo) ==
  LET named == IF normalizedName # <<>>
               THEN Merge(data, [name |-> normalizedName]) ELSE data
      memoed == IF normalizedMemo # <<>>
                THEN Merge(named, [memo |-> normalizedMemo]) ELSE named
  IN IF hasLastName(normalizedName) THEN Merge(memoed, [memo |-> Empty]) ELSE memoed

\* the identifier getPersonId and savePersonId build from entryData
identifierOf(entryData) ==
  LET data == normalizePersonData(entryData)
  IN buildIdentifier(data.normalizedName, data.normalizedMemo)

\* {name: entryData.name, memo: entryData.memo}
personFields(entryData) ==
  [name |-> Field(entryData, "name", Undefined),
   memo |-> Field(entryData, "memo", Undefined)]

\* Firestore rejects a document with an undefined field value
storeAccepts(document) == \A k \in DOMAIN document : document[k] # Undefined

\* the people document ensurePersonId creates
newPersonDoc(entryData, when) ==
  Merge(personFields(entryData),
        [firstImpressionInfo |->
           <<"date", Instant(when),
             "where", IF Field(entryData, "place", Empty) # Empty
                      THEN entryData.place ELSE <<"unknown">>>>])

\* the handler call as writeEntryForDate leaves it at its first store call
beginEntry(c, personId) ==
  LET date == Field(c.entryData, "date", Instant(clock))
      entryDate == normalizeEntryDate(date, clock)
      entryPayload == Merge(c.entryData, [date |-> date, entryDate |-> entryDate])
  IN [c EXCEPT !.personId = personId,
               !.entryDate = entryDate,
               !.payload = entryPayload,
               !.target = entryDate,
               !.pc = IF hasQuery THEN "entryQuery" ELSE "entryWrite"]

Logged(events) == legacyLog' = legacyLog \o events

\* the warnings of the logger
ProvideMemoOrLastName == "Provide either a memo or a full name with a last name."
FailedMessage(op) ==
  IF op = "saveEntry" THEN "Failed to save to Firestore:" ELSE "Failed to upsert person:"

\* what a session finds in the legacy store: nothing, or one person with an
\* entry written at instant 0, earlier on day 1
SeedLegacyPerson == [name |-> <<"a", SP, "g">>, memo |-> Empty]
SeedMapping == [identifier |-> <<"a", SP, "g">>, id |-> 1]
SeedEntry ==
  [name |-> <<"a", SP, "g">>, memo |-> Empty, place |-> <<"p">>,
   date |-> Instant(0), entryDate |-> DayKey(1)]

\* the person data saveEntry and upsertPerson are called with
HandlerInputs ==
  {[name |-> <<"a", SP, "g", SP>>, place |-> <<"q">>],
   [name |-> <<"a", SP, "g">>, memo |-> <<"m">>, items |-> <<"i">>],
   [name |-> <<"a">>, memo |-> <<"m", SP>>, place |-> <<"q">>],
   [name |-> <<"a">>],
   [name |-> <<SP>>, memo |-> <<SP>>, place |-> <<"q">>],
   [memo |-> <<"m">>, place |-> <<"q">>],
   [name |-> <<"a", SP, "g">>, items |-> <<"i">>, date |-> BadDate]}

InitLegacy ==
  /\ HomeIdle
  /\ hasQuery \in BOOLEAN
  /\ \/ /\ legacyPeople = <<>>
        /\ peopleIds = <<>>
        /\ entries = EmptyMap
     \/ /\ legacyPeople = <<SeedLegacyPerson>>
        /\ peopleIds = <<SeedMapping>>
        /\ entries = (<<1, DayKey(1)>> :> SeedEntry)
  /\ handlerCalls = {}
  /\ handlerSeq = 0
  /\ legacyLog = <<>>
  /\ clock = 1

\* handlerStart without the requireUniqueIdentifier check
handlerStartUnchecked(op, data) ==
  LET n == handlerSeq + 1
      normal == normalizePersonData(data)
      entryData == buildEntryData(data, normal.normalizedName, normal.normalizedMemo)
  IN /\ handlerSeq < MaxHandlerCalls
     /\ handlerSeq' = n
     /\ handlerCalls' = handlerCalls \cup
          {[id |-> n, op |-> op, entryData |-> entryData,
            pc |-> IF hasQuery /\ identifierOf(entryData) # Null
                   THEN "lookup" ELSE "create",
            when |-> clock, personId |-> 0, entryDate |-> Null,
            payload |-> EmptyMap, target |-> Null]}
     /\ UNCHANGED <<homeVars, legacyPeople, peopleIds, entries, legacyLog, clock,
                    hasQuery>>

\* saveEntry(data) and upsertPerson(personData), up to the first store call
handlerStart(op, data) ==
  LET n == handlerSeq + 1
      normal == normalizePersonData(data)
      entryData == buildEntryData(data, normal.normalizedName, normal.normalizedMemo)
      c == [id |-> n, op |-> op, entryData |-> entryData,
            pc |-> IF hasQuery /\ identifierOf(entryData) # Null
                   THEN "lookup" ELSE "create",
            when |-> clock, personId |-> 0, entryDate |-> Null,
            payload |-> EmptyMap, target |-> Null]
  IN /\ handlerSeq < MaxHandlerCalls
     /\ handlerSeq' = n
     /\ IF ~requireUniqueIdentifier(normal.normalizedName, normal.normalizedMemo)
        THEN /\ Logged(<<[call |-> n, event |-> "warn",
                          message |-> ProvideMemoOrLastName],
                         [call |-> n, event |-> "return", value |-> 0]>>)
             /\ UNCHANGED handlerCalls
        ELSE /\ handlerCalls' = handlerCalls \cup {c}
             /\ UNCHANGED legacyLog
     /\ UNCHANGED <<homeVars, legacyPeople, peopleIds, entries, clock, hasQuery>>

saveEntry(data) == handlerStart("saveEntry", data)

upsertPerson(personData) == handlerStart("upsertPerson", personData)

\* LookupMapping that takes every snapshot for empty
LookupMappingBlind(c) ==
  /\ c \in handlerCalls
  /\ c.pc = "lookup"
  /\ handlerCalls' = (handlerCalls \ {c}) \cup
       {[c EXCEPT !.pc = "create", !.when = clock]}
  /\ Logged(<<[call |-> c.id, event |-> "getDocumentsByField",
               collection |-> "peopleIds"]>>)
  /\ UNCHANGED <<homeVars, legacyPeople, peopleIds, entries, handlerSeq, clock,
                 hasQuery>>

\* getPersonId: await getDocumentsByField('peopleIds', 'identifier', identifier)
LookupMapping(c) ==
  /\ c \in handlerCalls
  /\ c.pc = "lookup"
  /\ LET hits == {m \in 1..Len(peopleIds) :
                    peopleIds[m].identifier = identifierOf(c.entryData)}
     IN IF hits = {}
        THEN handlerCalls' = (handlerCalls \ {c}) \cup
               {[c EXCEPT !.pc = "create", !.when = clock]}
        ELSE \E m \in hits :
               handlerCalls' = (handlerCalls \ {c}) \cup
                 {[c EXCEPT !.pc = "touch", !.personId = peopleIds[m].id]}
  /\ Logged(<<[call |-> c.id, event |-> "getDocumentsByField",
               collection |-> "peopleIds"]>>)
  /\ UNCHANGED <<homeVars, legacyPeople, peopleIds, entries, handlerSeq, clock,
                 hasQuery>>

\* ensurePersonId: await addDocument('people', {name, memo}, existingPersonId)
TouchPerson(c) ==
  /\ c \in handlerCalls
  /\ c.pc = "touch"
  /\ storeAccepts(personFields(c.entryData))
  /\ legacyPeople' = [legacyPeople EXCEPT ![c.personId] =
                        Merge(@, personFields(c.entryData))]
  /\ handlerCalls' = (handlerCalls \ {c}) \cup {beginEntry(c, c.personId)}
  /\ Logged(<<[call |-> c.id, event |-> "addDocument", collection |-> "people",
               data |-> personFields(c.entryData), id |-> c.personId]>>)
  /\ UNCHANGED <<homeVars, peopleIds, entries, handlerSeq, clock, hasQuery>>

\* ensurePersonId: await addDocument('people', {name, memo, firstImpressionInfo})
CreatePerson(c) ==
  /\ c \in handlerCalls
  /\ c.pc = "create"
  /\ storeAccepts(newPersonDoc(c.entryData, c.when))
  /\ legacyPeople' = Append(legacyPeople, newPersonDoc(c.entryData, c.when))
  /\ handlerCalls' = (handlerCalls \ {c}) \cup
       {IF identifierOf(c.entryData) # Null
        THEN [c EXCEPT !.pc = "saveId", !.personId = Len(legacyPeople) + 1]
        ELSE beginEntry(c, Len(legacyPeople) + 1)}
  /\ Logged(<<[call |-> c.id, event |-> "addDocument", collection |-> "people",
               data |-> newPersonDoc(c.entryData, c.when),
               id |-> Len(legacyPeople) + 1]>>)
  /\ UNCHANGED <<homeVars, peopleIds, entries, handlerSeq, clock, hasQuery>>

\* SavePersonId returning without the addDocument call
SavePersonIdSkipped(c) ==
  /\ c \in handlerCalls
  /\ c.pc = "saveId"
  /\ handlerCalls' = (handlerCalls \ {c}) \cup {beginEntry(c, c.personId)}
  /\ UNCHANGED <<homeVars, legacyPeople, peopleIds, entries, handlerSeq,
                 legacyLog, clock, hasQuery>>

\* savePersonId: await addDocument('peopleIds', {identifier, id})
SavePersonId(c) ==
  /\ c \in handlerCalls
  /\ c.pc = "saveId"
  /\ peopleIds' = Append(peopleIds, [identifier |-> identifierOf(c.entryData),
                                     id |-> c.personId])
  /\ handlerCalls' = (handlerCalls \ {c}) \cup {beginEntry(c, c.personId)}
  /\ Logged(<<[call |-> c.id, event |-> "addDocument", collection |-> "peopleIds",
               data |-> [identifier |-> identifierOf(c.entryData),
                         id |-> c.personId],
               id |-> Len(peopleIds) + 1]>>)
  /\ UNCHANGED <<homeVars, legacyPeople, entries, handlerSeq, clock, hasQuery>>

\* writeEntryForDate: await getDocumentsByField(entries, 'entryDate', entryDate)
QueryEntry(c) ==
  /\ c \in handlerCalls
  /\ c.pc = "entryQuery"
  /\ LET hits == {k \in DOMAIN entries :
                    k[1] = c.personId /\ entries[k].entryDate = c.entryDate}
     IN IF hits = {}
        THEN handlerCalls' = (handlerCalls \ {c}) \cup {[c EXCEPT !.pc = "entryWrite"]}
        ELSE \E k \in hits :
               handlerCalls' = (handlerCalls \ {c}) \cup
                 {[c EXCEPT !.pc = "entryWrite",
                            !.target = k[2],
                            !.payload = Merge(entries[k], c.payload)]}
  /\ Logged(<<[call |-> c.id, event |-> "getDocumentsByField",
               collection |-> "entries"]>>)
  /\ UNCHANGED <<homeVars, legacyPeople, peopleIds, entries, handlerSeq, clock,
                 hasQuery>>

\* WriteEntry adding a document under an id of its own, as addDoc does
WriteEntryNewDoc(c) ==
  /\ c \in handlerCalls
  /\ c.pc = "entryWrite"
  /\ entries' = Put(entries, <<c.personId, <<"auto", Cardinality(DOMAIN entries) + 1>>>>,
                    c.payload)
  /\ handlerCalls' = handlerCalls \ {c}
  /\ Logged(<<[call |-> c.id, event |-> "addSubcollectionDocument",
               personId |-> c.personId, data |-> c.payload, id |-> c.target],
              [call |-> c.id, event |-> "return", value |-> c.personId]>>)
  /\ UNCHANGED <<homeVars, legacyPeople, peopleIds, handlerSeq, clock, hasQuery>>

\* writeEntryForDate: await addSubcollectionDocument('people', personId,
\* 'entries', entryPayload, existingEntryId ?? entryDate); then the return
WriteEntry(c) ==
  /\ c \in handlerCalls
  /\ c.pc = "entryWrite"
  /\ LET key == <<c.personId, c.target>>
         stored == IF key \in DOMAIN entries THEN entries[key] ELSE EmptyMap
     IN entries' = Put(entries, key, Merge(stored, c.payload))
  /\ handlerCalls' = handlerCalls \ {c}
  /\ Logged(<<[call |-> c.id, event |-> "addSubcollectionDocument",
               personId |-> c.personId, data |-> c.payload, id |-> c.target],
              [call |-> c.id, event |-> "return", value |-> c.personId]>>)
  /\ UNCHANGED <<homeVars, legacyPeople, peopleIds, handlerSeq, clock, hasQuery>>

\* the store call the handler waits on rejects: catch, warn, return null
FailHandler(c) ==
  /\ c \in handlerCalls
  /\ handlerCalls' = handlerCalls \ {c}
  /\ Logged(<<[call |-> c.id, event |-> "warn", message |-> FailedMessage(c.op)],
              [call |-> c.id, event |-> "return", value |-> 0]>>)
  /\ UNCHANGED <<homeVars, legacyPeople, peopleIds, entries, handlerSeq, clock,
                 hasQuery>>

NextLegacy ==
  \/ \E data \in HandlerInputs : saveEntry(data)
  \/ \E personData \in HandlerInputs : upsertPerson(personData)
  \/ \E c \in handlerCalls : LookupMapping(c)
  \/ \E c \in handlerCalls : TouchPerson(c)
  \/ \E c \in handlerCalls : CreatePerson(c)
  \/ \E c \in handlerCalls : SavePersonId(c)
  \/ \E c \in handlerCalls : QueryEntry(c)
  \/ \E c \in handlerCalls : WriteEntry(c)
  \/ \E c \in handlerCalls : FailHandler(c)
  \/ Tick

SpecLegacy == InitLegacy /\ [][NextLegacy]_vars

-----------------------------------------------------------------------------
(* Properties.                                                             *)

\* a text with nothing but white space in it
BlankText(text) == \A i \in 1..Len(text) : text[i] \in WhiteSpace

\* a card with no meaningful name, memo, place or fact text and no persisted id
BlankCard(card) ==
  /\ BlankText(card.personName)
  /\ BlankText(card.memo)
  /\ BlankText(card.placeLabel)
  /\ \A i \in 1..Len(card.facts) : BlankText(card.facts[i])
  /\ card.encounterId = 0

\* C1: the card list always holds exactly one blank card, which is its last
\* element; no interior card is blank.
C1_OneTrailingBlankCard ==
  /\ Len(cards) >= 1
  /\ \A i \in 1..Len(cards) : BlankCard(cards[i]) <=> i = Len(cards)

\* C1 after edits and a save completion: a locally created card that a save
\* gave its encounter id, followed by the blank card
C1_Witness ==
  /\ edits >= 2
  /\ Len(cards) >= 2
  /\ \E i \in 1..Len(cards) :
       cards[i].encounterId # 0 /\ cards[i].clientId[1] = "local"

\* C2: every card's fact list is non-empty, ends with a blank fact and has no
\* other blank fact.
C2_OneTrailingBlankFact ==
  \A c \in 1..Len(cards) :
    LET facts == cards[c].facts
    IN /\ Len(facts) >= 1
       /\ \A i \in 1..Len(facts) : BlankText(facts[i]) <=> i = Len(facts)

\* C2 after fact edits: a card with two facts and the blank slot
C2_Witness ==
  \E c \in 1..Len(cards) : Len(cards[c].facts) = 3 /\ cards[c].needsSave

\* saveStatus[card.clientId]; no entry is shown as "Auto-saves"
StatusOf(clientId) ==
  IF clientId \in DOMAIN saveStatus THEN saveStatus[clientId] ELSE "idle"

\* the armed timers of a card
ArmedFor(clientId) == {t \in armed : t.key = clientId}
\* the invocations of persistCard for a card that wait on the store
CallsFor(clientId) == {c \in calls : c.clientId = clientId}

\* the content a card was left with by its last edit
LastEdited(clientId) ==
  IF clientId \in DOMAIN lastEdit THEN lastEdit[clientId]
  ELSE Snapshot(CardOf(clientId))

\* C3: when a card's timer fires, the edits and flushes before it have armed
\* no other timer of that card, so they result in this one invocation of
\* persistCard; and what the invocation writes is the card as its last edit
\* left it.
C3_OneInvocationPerWindow ==
  [][\A t \in armed :
       FireTimer(t) =>
         /\ ArmedFor(t.key) = {t}
         /\ \A c \in calls' \ calls :
              /\ c.place = Trim(LastEdited(t.key).placeLabel)
              /\ c.facts = buildFactsPayload(LastEdited(t.key).facts)
              /\ c.displayName = buildDisplayName(LastEdited(t.key).personName,
                                                  LastEdited(t.key).memo)]_vars

\* C4: for every clientId at most one save timer is armed.
C4_OneArmedTimerPerCard ==
  \A t1, t2 \in armed : t1.key = t2.key => t1 = t2

\* C5: for each card, at most one Encounter is ever created in the store.
C5_OneCreatePerCard ==
  \A i, j \in 1..Len(createdBy) :
    createdBy[i] = createdBy[j] /\ createdBy[i] # SeedId => i = j

\* the place and the facts persistCard writes for a card
PlaceWritten(card) ==
  IF Trim(card.placeLabel) # <<>> THEN Trim(card.placeLabel) ELSE UnspecifiedPlace
FactsWritten(card) == buildFactsPayload(card.facts)

\* C6: a card with no armed timer, no save in flight and status 'saved' has
\* its place and facts in the Encounter stored for it.
C6_SavedCardIsStored ==
  \A i \in 1..Len(cards) :
    LET card == cards[i]
    IN (/\ ArmedFor(card.clientId) = {}
        /\ CallsFor(card.clientId) = {}
        /\ StatusOf(card.clientId) = "saved")
       => /\ card.encounterId # 0
          /\ encounters[card.encounterId].placeLabel = PlaceWritten(card)
          /\ encounters[card.encounterId].facts = FactsWritten(card)

\* C7: once the screen is unmounted no save timer is armed, and no
\* persistCard invocation and no remote write starts.
C7_NothingAfterUnmount ==
  ~mounted => armed = {} /\ lateEvents = {}

\* a card whose name or memo is not blank and that has a fact or a place
\* that is not blank
PersistWorthy(card) ==
  /\ ~BlankText(card.personName) \/ ~BlankText(card.memo)
  /\ \/ \E i \in 1..Len(card.facts) : ~BlankText(card.facts[i])
     \/ ~BlankText(card.placeLabel)

\* C8: with a configured store, a timer firing for a card issues remote calls
\* if and only if the card, as it is when the timer fires, is persist-worthy.
C8_FiresIffPersistWorthy ==
  [][\A t \in armed :
       (FireTimer(t) /\ configured) =>
         ((calls' # calls) <=>
            \E i \in 1..Len(cards) :
              cards[i].clientId = t.key /\ PersistWorthy(cards[i]))]_vars

\* C8 with a save started for a card that has a name and a fact and no place
C8_Witness ==
  \E c \in calls :
    /\ c.pc = "find"
    /\ c.place = <<>>
    /\ Len(c.facts) > 0
    /\ c.extra = EmptyMap

\* C9: the store holds at most one Encounter per person and calendar day
\* (every Encounter of the model is dated today).
C9_OneEncounterPerPersonDay ==
  \A i, j \in 1..Len(encounters) :
    encounters[i].personId = encounters[j].personId => i = j

\* C10: sequential upsertPersonByName calls whose names normalize to the same
\* string return the same Person id, and one people document carries that
\* normalized name.
C10_SameNameSamePerson ==
  \A i, j \in 1..Len(returned) :
    normalizePersonName(returned[i].name) = normalizePersonName(returned[j].name)
    => /\ returned[i].id = returned[j].id
       /\ Cardinality({p \in 1..Len(people) :
             people[p].normalizedName = normalizePersonName(returned[i].name)}) = 1

\* C10 with two calls whose names differ and normalize alike
C10_Witness ==
  \E i, j \in 1..Len(returned) :
    /\ i < j
    /\ returned[i].name # returned[j].name
    /\ Trim(returned[i].name) # Trim(returned[j].name)
    /\ normalizePersonName(returned[i].name) = normalizePersonName(returned[j].name)
    /\ returned[i].id = returned[j].id

\* C11: no two people documents carry the same normalizedName, however the
\* saves of two cards that name the same person interleave.
C11_UniqueNormalizedName ==
  \A i, j \in 1..Len(people) :
    people[i].normalizedName = people[j].normalizedName => i = j

\* C12: normalizePersonName is idempotent: normalizing the normalized form of
\* any name upsertPersonByName was called with gives that normalized form.
C12_NormalizeIdempotent ==
  \A i \in 1..Len(returned) :
    normalizePersonName(normalizePersonName(returned[i].name))
      = normalizePersonName(returned[i].name)

\* C13: when a remote call of a card's save fails, the card's status becomes
\* 'error' and the card list stays exactly as it was: every card keeps its
\* text fields, facts, ids and position.
C13_FailureKeepsDraft ==
  [][\A c \in calls :
       FailCall(c) => /\ StatusOf(c.clientId)' = "error"
                      /\ cards' = cards]_vars

\* C13 after a failure: a listed card with status 'error' that still holds its
\* unsaved name and place
C13_Witness ==
  \E i \in 1..Len(cards) :
    /\ StatusOf(cards[i].clientId) = "error"
    /\ cards[i].needsSave
    /\ cards[i].encounterId = 0
    /\ PersistWorthy(cards[i])
    /\ CallsFor(cards[i].clientId) = {}

\* an edit, a fact removal or a flush of the i-th card
EditOrFlush(i) ==
  \/ \E text \in NameInputs : EditName(i, text)
  \/ \E text \in MemoInputs : EditMemo(i, text)
  \/ \E text \in PlaceInputs : EditPlace(i, text)
  \/ \E factIndex \in 1..Len(cards[i].facts), text \in FactInputs :
       handleFactChange(i, factIndex, text)
  \/ AddFact(i)
  \/ \E factIndex \in 1..Len(cards[i].facts) : SubmitFact(i, factIndex)
  \/ \E factIndex \in 1..Len(cards[i].facts) : handleRemoveFact(i, factIndex)
  \/ Flush(i)

\* the card with this clientId is listed in the next state and persist-worthy
StillWorthy(clientId) ==
  \E j \in 1..Len(cards') :
    cards'[j].clientId = clientId /\ PersistWorthy(cards'[j])

C15_FailureIsPerCard ==
  [][\A c \in calls :
       FailCall(c) =>
         /\ cards' = cards
         /\ \A k \in (ClientIds(cards) \cup DOMAIN saveStatus \cup DOMAIN timersRef)
                       \ {c.clientId} :
              /\ StatusOf(k)' = StatusOf(k)
              /\ ArmedFor(k)' = ArmedFor(k)
              /\ Get(timersRef, k)' = Get(timersRef, k)
              /\ CallsFor(k)' = CallsFor(k)]_vars

\* C15 after a failure: one card in status 'error' while another card has a
\* save in flight
C15_Witness ==
  \E i, j \in 1..Len(cards) :
    /\ i # j
    /\ StatusOf(cards[i].clientId) = "error"
    /\ CallsFor(cards[i].clientId) = {}
    /\ StatusOf(cards[j].clientId) = "saving"
    /\ CallsFor(cards[j].clientId) # {}

\* the encounters documents the saves of a card created
CreatedFor(clientId) == {e \in 1..Len(createdBy) : createdBy[e] = clientId}

\* C16: with a working store, once no timer is armed and no save is in flight
\* every listed persist-worthy card that was created locally has had exactly
\* one Encounter created for it, holds that Encounter's id and person id, and
\* has status 'saved'; and a locally created card with no save started for it
\* has no status and no Encounter.
C16_OneCreateThenSaved ==
  \A i \in 1..Len(cards) :
    LET card == cards[i]
        k == card.clientId
    IN k[1] = "local" =>
         /\ (CallsFor(k) = {} /\ CreatedFor(k) = {}) => StatusOf(k) = "idle"
         /\ (configured /\ armed = {} /\ calls = {} /\ PersistWorthy(card))
            => /\ Cardinality(CreatedFor(k)) = 1
               /\ card.encounterId \in CreatedFor(k)
               /\ card.personId = encounters[card.encounterId].personId
               /\ StatusOf(k) = "saved"

\* C17: with a configured store whose calls all succeed and fair scheduling,
\* the session settles in a state where every listed card that was edited
\* and is persist-worthy has status 'saved', needsSave false and no timer
\* pending, with no action of the user other than the edits.
C17_EventuallySaved ==
  <>[](\A i \in 1..Len(cards) :
         (/\ configured
          /\ cards[i].clientId \in DOMAIN lastEdit
          /\ PersistWorthy(cards[i]))
         => /\ StatusOf(cards[i].clientId) = "saved"
            /\ ~cards[i].needsSave
            /\ ArmedFor(cards[i].clientId) = {}
            /\ CallsFor(cards[i].clientId) = {})

\* C17 settled: an edited, persist-worthy card saved with nothing pending
C17_Witness ==
  /\ armed = {}
  /\ calls = {}
  /\ \E i \in 1..Len(cards) :
       /\ cards[i].clientId \in DOMAIN lastEdit
       /\ PersistWorthy(cards[i])
       /\ StatusOf(cards[i].clientId) = "saved"
       /\ ~cards[i].needsSave
       /\ cards[i].encounterId # 0

\* a change of the name, memo, place or a fact text of the i-th card
FieldEdit(i) ==
  \/ \E text \in NameInputs : EditName(i, text)
  \/ \E text \in MemoInputs : EditMemo(i, text)
  \/ \E text \in PlaceInputs : EditPlace(i, text)
  \/ \E factIndex \in 1..Len(cards[i].facts), text \in FactInputs :
       handleFactChange(i, factIndex, text)

\* C18: a field edit of a card leaves the card not reported as saved: right
\* after the edit its status is not 'saved'.
C18_EditMakesDirty ==
  [][\A i \in 1..Len(cards) :
       FieldEdit(i) => StatusOf(cards[i].clientId)' # "saved"]_vars

\* C19: when the store is not configured, no step (a timer firing least of
\* all) issues a remote call, writes to the store or changes a save status;
\* the initial load leaves a single blank card; and every step keeps the
\* card-list and fact-list invariants.
C19_UnconfiguredIsLocal ==
  /\ [][~configured =>
          /\ calls' = {}
          /\ saveStatus' = EmptyMap
          /\ people' = <<>> /\ encounters' = <<>>
          /\ C1_OneTrailingBlankCard'
          /\ C2_OneTrailingBlankFact']_vars
  /\ [][(~configured /\ LoadStart) =>
          /\ Len(cards') = 1
          /\ BlankCard(cards'[1])
          /\ loadPc' = "done"]_vars

\* C19 after a timer fired with no store: no timer is left armed though one
\* was set for the listed persist-worthy card
C19_Witness ==
  /\ ~configured
  /\ timerSeq >= 1
  /\ armed = {}
  /\ \E i \in 1..Len(cards) :
       /\ PersistWorthy(cards[i])
       /\ cards[i].needsSave
       /\ cards[i].clientId \notin DOMAIN timersRef

\* a text with at least two white-space-separated tokens
TwoTokens(text) ==
  \E i, j, k \in 1..Len(text) :
    /\ i < j /\ j < k
    /\ text[i] \notin WhiteSpace
    /\ text[j] \in WhiteSpace
    /\ text[k] \notin WhiteSpace

\* C20: the identifier built from the trimmed name and memo is the name alone
\* when the name has at least two white-space-separated tokens, whatever the
\* memo; otherwise name-memo when the memo is not empty; otherwise there is
\* none.
C20_CompositeKey ==
  \A r \in 1..Len(returned) :
    LET name == Trim(returned[r].name)
        memo == Trim(returned[r].memo)
    IN returned[r].identifier =
         IF TwoTokens(name) THEN name
         ELSE IF memo # <<>> THEN name \o <<"-">> \o memo
         ELSE Null

\* C20 with its three cases: a full name with a memo, a single name with a
\* memo, and a single name with none
C20_Witness ==
  \E r1, r2, r3 \in 1..Len(returned) :
    /\ TwoTokens(returned[r1].name) /\ Trim(returned[r1].memo) # <<>>
    /\ returned[r1].identifier = Trim(returned[r1].name)
    /\ ~TwoTokens(returned[r2].name) /\ Trim(returned[r2].memo) # <<>>
    /\ Trim(returned[r2].name) # <<>>
    /\ returned[r2].identifier # Null
    /\ ~TwoTokens(returned[r3].name) /\ Trim(returned[r3].memo) = <<>>
    /\ returned[r3].identifier = Null


\* the person data has no last name and no memo
NoLastNameNoMemo(data) ==
  /\ ~hasLastName(Trim(Field(data, "name", Empty)))
  /\ Trim(Field(data, "memo", Empty)) = <<>>

\* the step is a call of saveEntry or upsertPerson with this person data
Called(data) == saveEntry(data) \/ upsertPerson(data)

\* the events the log gains in the step
NewEvents == SubSeq(legacyLog', Len(legacyLog) + 1, Len(legacyLog'))

\* C21: saveEntry and upsertPerson called with a name that has no last name
\* and with no memo write nothing to the store (no people document, no
\* mapping, no entry, and no call left that could write later), log the
\* warning and return null.
C21_NoIdentifierNoWrite ==
  [][\A data \in HandlerInputs :
       Called(data) /\ NoLastNameNoMemo(data) =>
         /\ UNCHANGED <<legacyPeople, peopleIds, entries, handlerCalls>>
         /\ NewEvents = <<[call |-> handlerSeq', event |-> "warn",
                           message |-> ProvideMemoOrLastName],
                          [call |-> handlerSeq', event |-> "return", value |-> 0]>>]_vars

\* a call was refused for want of an identifier, and a later call was not
C21_Witness ==
  /\ Len(legacyLog) >= 2
  /\ legacyLog[1].event = "warn"
  /\ legacyLog[1].message = ProvideMemoOrLastName
  /\ legacyLog[2] = [call |-> 1, event |-> "return", value |-> 0]
  /\ handlerSeq = 2
  /\ handlerCalls # {}

\* the ids of the entries of a person stored for a day
EntriesOn(store, personId, day) ==
  {k \in DOMAIN store : k[1] = personId /\ store[k].entryDate = day}

\* the step is the entry write of call c, which then returns the person id
EntryWritten(c) ==
  /\ c \in handlerCalls
  /\ c.pc = "entryWrite"
  /\ c \notin handlerCalls'
  /\ NewEvents # <<>>
  /\ NewEvents[Len(NewEvents)] = [call |-> c.id, event |-> "return",
                                  value |-> c.personId]

\* C22: however saveEntry and upsertPerson calls for a person on a day follow
\* each other, the person's entries hold exactly one document for that day
\* after each write: the write targets the id of an entry stored for that
\* day, or the day key when it found none.
C22_OneEntryPerDay ==
  [][\A c \in handlerCalls :
       EntryWritten(c) =>
         /\ Cardinality(EntriesOn(entries', c.personId, c.entryDate)) = 1
         /\ c.target \in {k[2] : k \in EntriesOn(entries, c.personId, c.entryDate)}
                           \cup {c.entryDate}]_vars

\* two calls have written an entry for the same person and day, the second
\* into the entry of the first, and one document holds the fields of both
C22_Witness ==
  \E i, j \in DOMAIN legacyLog :
    /\ i < j
    /\ legacyLog[i].event = "addSubcollectionDocument"
    /\ legacyLog[j].event = "addSubcollectionDocument"
    /\ legacyLog[i].call # legacyLog[j].call
    /\ legacyLog[i].personId = legacyLog[j].personId
    /\ legacyLog[i].id = legacyLog[j].id
    /\ <<legacyLog[j].personId, legacyLog[j].id>> \in DOMAIN entries
    /\ {"place", "items"} \subseteq
         DOMAIN entries[<<legacyLog[j].personId, legacyLog[j].id>>]
    /\ Cardinality(DOMAIN entries) = 1

\* C23: when an entry is stored for (person, day), the entry a call writes is
\* the shallow merge of the stored fields with the new fields: each key the
\* new payload supplies has the new value and each stored key it omits keeps
\* its stored value.
C23_ShallowMerge ==
  [][\A c \in handlerCalls :
       EntryWritten(c) /\ <<c.personId, c.target>> \in DOMAIN entries =>
         LET stored == entries[<<c.personId, c.target>>]
             written == entries'[<<c.personId, c.target>>]
         IN /\ DOMAIN written = DOMAIN stored \cup DOMAIN c.entryData
                                  \cup {"date", "entryDate"}
            /\ \A key \in DOMAIN c.entryData : written[key] = c.entryData[key]
            /\ written.entryDate = c.entryDate
            /\ \A key \in DOMAIN stored \ (DOMAIN c.entryData \cup {"date", "entryDate"}) :
                 written[key] = stored[key]]_vars



\* C24: an edit or flush whose snapshot is not persist-worthy leaves no timer
\* of that card armed (the pending one is cancelled, none is armed), so that
\* no timer of a card that is not persist-worthy fires, and a write is only
\* ever started for a card that is persist-worthy when its timer fires.
C24_ClearedCardCancels ==
  /\ [][\A i \in 1..Len(cards) :
          EditOrFlush(i) /\ ~StillWorthy(cards[i].clientId)
          => ArmedFor(cards[i].clientId)' = {}]_vars
  /\ [][\A t \in armed :
          FireTimer(t) /\ calls' # calls
          => findIndex(cards, t.key) # 0 /\ PersistWorthy(CardOf(t.key))]_vars


\* C25: the save a firing timer starts takes its name, memo, place, facts and
\* encounterId from the card as listed when the timer fires; and a save that
\* started with an encounterId updates that Encounter and creates none.
C25_SaveReadsCurrentState ==
  /\ [][\A t \in armed :
          FireTimer(t) =>
            \A c \in calls' \ calls :
              LET card == CardOf(t.key)
              IN /\ c.clientId = t.key
                 /\ c.displayName = buildDisplayName(card.personName, card.memo)
                 /\ c.place = Trim(card.placeLabel)
                 /\ c.facts = buildFactsPayload(card.facts)
                 /\ c.encounterId = card.encounterId]_vars
  /\ [][\A c \in calls :
          SaveEncounter(c) /\ c.encounterId # 0 =>
            /\ createdBy' = createdBy
            /\ Len(encounters') = Len(encounters)
            /\ encounters'[c.encounterId].placeLabel = PlaceWritten([placeLabel |-> c.place])]_vars

\* a save in flight is an update of an Encounter although the snapshot last
\* passed to queueSave for its card, before the timer fired, had no
\* encounterId: the completion of the create came in between
C25_Witness ==
  \E c \in calls :
    /\ c.encounterId # 0
    /\ c.clientId \in DOMAIN lastEdit
    /\ lastEdit[c.clientId].encounterId = 0
    /\ c.encounterId \in CreatedFor(c.clientId)


\* C26: the save of a card that has an encounterId when its timer fires
\* updates exactly that Encounter, with the card's place, and creates none;
\* and a place edit of such a card made while an earlier edit's timer is still
\* pending leaves exactly one timer armed for the card, so that the edits of
\* one debounce window end in one update call.
C26_OneUpdateCall ==
  /\ [][\A t \in armed :
          (/\ FireTimer(t)
           /\ findIndex(cards, t.key) # 0
           /\ CardOf(t.key).encounterId # 0)
          => \A c \in calls' \ calls :
               /\ c.encounterId = CardOf(t.key).encounterId
               /\ c.place = Trim(CardOf(t.key).placeLabel)]_vars
  /\ [][\A c \in calls :
          SaveEncounter(c) /\ c.encounterId # 0 =>
            /\ createdBy' = createdBy
            /\ \A e \in 1..Len(encounters) :
                 e # c.encounterId => encounters'[e] = encounters[e]]_vars
  /\ [][\A i \in 1..Len(cards) :
          (/\ \E text \in PlaceInputs : EditPlace(i, text)
           /\ cards[i].encounterId # 0
           /\ ArmedFor(cards[i].clientId) # {}
           /\ StillWorthy(cards[i].clientId))
          => Cardinality(ArmedFor(cards[i].clientId)') = 1]_vars


\* C27: a successful save completion leaves the list with the same cards in
\* the same order, each with the name, memo, place, facts, clientId and date
\* it had, edits made during the call included; it changes nothing but the
\* encounterId, personId, isNew and needsSave of the saved card.
C27_CompletionKeepsContent ==
  [][\A c \in calls :
       SaveEncounter(c) =>
         /\ Len(cards') = Len(cards)
         /\ \A i \in 1..Len(cards) :
              IF cards[i].clientId = c.clientId
              THEN cards'[i] = [cards[i] EXCEPT !.encounterId = cards'[i].encounterId,
                                                !.personId = cards'[i].personId,
                                                !.isNew = cards'[i].isNew,
                                                !.needsSave = cards'[i].needsSave]
              ELSE cards'[i] = cards[i]]_vars


\* the completion of a create has come in after the card's last edit, and the
\* card still shows a place other than the one the save wrote: the edit made
\* while the call was in flight is kept
C27_Witness ==
  \E i \in 1..Len(cards) :
    /\ cards[i].encounterId \in CreatedFor(cards[i].clientId)
    /\ ~cards[i].needsSave
    /\ StatusOf(cards[i].clientId) = "saved"
    /\ encounters[cards[i].encounterId].placeLabel # PlaceWritten(cards[i])


\* C28: when the result of the initial load is applied, or its failure is
\* handled, every card the user has edited and that holds content is still
\* listed, with the same name, memo, place and facts.
C28_LoadKeepsEdits ==
  [][LoadApply \/ LoadReject =>
       \A i \in 1..Len(cards) :
         cards[i].needsSave /\ hasMeaningfulContent(cards[i]) =>
           \E j \in 1..Len(cards') :
             /\ cards'[j].clientId = cards[i].clientId
             /\ Snapshot(cards'[j]) = Snapshot(cards[i])]_vars


\* C29: when the completion of a create is processed, the Encounter created
\* is the encounterId of a listed card.
C29_CreatedIsReferenced ==
  [][\A c \in calls :
       SaveEncounter(c) /\ c.encounterId = 0 =>
         \E j \in 1..Len(cards') : cards'[j].encounterId = Len(encounters')]_vars


\* C30: while a save call of a card is in flight the card's status is
\* 'saving'; a step that sets the status to 'saved' or 'error' leaves no call
\* of the card outstanding.
C30_SavingWhileInFlight ==
  /\ [][\A k \in {c.clientId : c \in calls'} : StatusOf(k)' = "saving"]_vars
  /\ [][\A k \in DOMAIN saveStatus' :
          (StatusOf(k)' \in {"saved", "error"} /\ StatusOf(k)' # StatusOf(k))
          => \A c \in calls' : c.clientId # k]_vars


\* no text of the facts list is blank and the k-th fact has orderIndex k - 1
WellOrdered(facts) ==
  \A k \in 1..Len(facts) :
    Trim(facts[k].text) # <<>> /\ facts[k].orderIndex = k - 1

\* C31: every facts list a card save hands to the store, and every facts list
\* stored, has no fact that is blank after trimming and carries the
\* orderIndex values 0, 1, ..., n-1 in list order.
C31_FactsWellOrdered ==
  /\ \A c \in calls : WellOrdered(c.facts)
  /\ \A e \in 1..Len(encounters) : WellOrdered(encounters[e].facts)

\* a save has written two facts of a card whose list also held a blank slot
C31_Witness ==
  \E i \in 1..Len(cards) :
    /\ cards[i].encounterId # 0
    /\ ~cards[i].needsSave
    /\ StatusOf(cards[i].clientId) = "saved"
    /\ Len(cards[i].facts) = 3
    /\ Len(encounters[cards[i].encounterId].facts) = 2


\* the fact sequence without its entry at index, ending with one blank slot
WithoutFact(facts, index) ==
  LET rest == [k \in 1..(Len(facts) - 1) |->
                 IF k < index THEN facts[k] ELSE facts[k + 1]]
  IN IF Len(facts) <= 1 THEN <<Empty>>
     ELSE IF BlankText(rest[Len(rest)]) THEN rest
     ELSE Append(rest, Empty)

\* C32: removing the fact at an index of a card leaves the card, if it is
\* still listed, with its fact sequence less that entry and ending with one
\* blank slot (a single blank slot when there was at most one entry): the
\* sequence is never empty and the other facts keep their text and order.
C32_RemoveFact ==
  [][\A i \in 1..Len(cards) : \A factIndex \in 1..Len(cards[i].facts) :
       handleRemoveFact(i, factIndex) =>
         \A j \in 1..Len(cards') :
           cards'[j].clientId = cards[i].clientId =>
             /\ cards'[j].facts = WithoutFact(cards[i].facts, factIndex)
             /\ Len(cards'[j].facts) >= 1]_vars

\* the state the removal of the first of two facts of a loaded card leads
\* to: one fact and the blank slot, the change not yet saved
C32_Witness ==
  \E i \in 1..Len(cards) :
    /\ cards[i].encounterId # 0
    /\ cards[i].needsSave
    /\ cards[i].facts = <<<<"f">>, Empty>>
    /\ edits >= 2
    /\ ArmedFor(cards[i].clientId) # {}


\* the people documents whose normalizedName is the normalized name
SameNamed(name) ==
  {p \in 1..Len(people) : people[p].normalizedName = normalizePersonName(name)}

\* C33: when a Person with the same normalized name exists, upsertPersonByName
\* creates no document and changes no other document; the document found
\* gets the extra fields, the trimmed displayName, the normalizedName and the
\* updatedAt of the call, keeps its createdAt and every other stored field
\* (an earlier memo that the extra fields do not carry), and its id is
\* returned.
C33_UpsertMergesExisting ==
  [][\A displayName \in UpsertNames, extra \in UpsertExtras :
       upsertPersonByName(displayName, extra) /\ SameNamed(displayName) # {} =>
         \E e \in SameNamed(displayName) :
           /\ Len(people') = Len(people)
           /\ \A p \in 1..Len(people) : p # e => people'[p] = people[p]
           /\ \A key \in DOMAIN extra : people'[e][key] = extra[key]
           /\ people'[e].displayName = Trim(displayName)
           /\ people'[e].normalizedName = normalizePersonName(displayName)
           /\ people'[e].updatedAt = clock
           /\ people'[e].createdAt = people[e].createdAt
           /\ DOMAIN people'[e] = DOMAIN people[e] \cup DOMAIN extra
           /\ \A key \in DOMAIN people[e] \ (DOMAIN extra \cup
                    {"displayName", "normalizedName", "updatedAt"}) :
                people'[e][key] = people[e][key]
           /\ returned'[Len(returned')].id = e]_vars

\* a later call under another spelling of the name has refreshed, at a
\* later instant, the one Person on file, which holds a memo and keeps its
\* createdAt
C33_Witness ==
  \E p \in 1..Len(people) :
    /\ "memo" \in DOMAIN people[p]
    /\ people[p].updatedAt > people[p].createdAt
    /\ Len(people) = 1
    /\ Len(returned) = 2
    /\ returned[2].id = p
    /\ returned[2].name # returned[1].name
    /\ people[p].displayName = Trim(returned[2].name)
    /\ people[p].displayName # Trim(returned[1].name)


\* the places in a log of the events of a call
EventsOf(log, call) == {i \in 1..Len(log) : log[i].call = call}

\* the store calls of a kind a call has made, in order
StoreCalls(log, call, event) ==
  SelectSeq(log, LAMBDA e : e.call = call /\ e.event = event)

\* the place in a log where the mapping at position m was created, 0 for a
\* mapping the store held from the start
MappingCreatedAt(log, m) ==
  LET made == {i \in 1..Len(log) :
                 /\ log[i].event = "addDocument"
                 /\ log[i].collection = "peopleIds"
                 /\ log[i].id = m}
  IN IF made = {} THEN 0 ELSE CHOOSE i \in made : TRUE

\* the person ids mapped to the identifier of call c before its first store call
MappedBefore(log, c) ==
  {peopleIds[m].id : m \in {n \in 1..Len(peopleIds) :
      /\ peopleIds[n].identifier = identifierOf(c.entryData)
      /\ \A i \in EventsOf(log, c.id) : MappingCreatedAt(log, n) < i}}

\* what C34 says of call c, which has just written its entry
ReusedMappedPerson(c) ==
  LET adds == StoreCalls(legacyLog', c.id, "addDocument")
      name == Trim(Field(c.entryData, "name", Empty))
  IN /\ Len(adds) = 1
     /\ adds[1].collection = "people"
     /\ adds[1].id \in MappedBefore(legacyLog', c)
     /\ adds[1].data = [name |-> name,
                        memo |-> IF hasLastName(name) THEN Empty
                                 ELSE Trim(Field(c.entryData, "memo", Empty))]
     /\ c.personId = adds[1].id
     /\ <<c.personId, c.target>> \in DOMAIN entries'

AddsTo(event, collection) ==
  event.event = "addDocument" /\ event.collection = collection

\* the event is the addDocument call that creates a people document
CreatesPerson(event) ==
  AddsTo(event, "people") /\ "firstImpressionInfo" \in DOMAIN event.data

\* C35: a saveEntry or upsertPerson call that finds no mapping for its
\* identifier and goes through makes, in this order, one addDocument call
\* creating a people document, one addDocument call creating the mapping
\* {identifier, id of that document}, and one write of the day entry under
\* that id; it makes no other addDocument or entry write.
C35_CreateThenMapThenEntry ==
  [][\A c \in handlerCalls :
       EntryWritten(c) /\ MappedBefore(legacyLog', c) = {} =>
         LET adds == StoreCalls(legacyLog', c.id, "addDocument")
             writes == StoreCalls(legacyLog', c.id, "addSubcollectionDocument")
             made == SelectSeq(legacyLog', LAMBDA e :
                       e.call = c.id /\ e.event \in {"addDocument",
                                                     "addSubcollectionDocument"})
         IN /\ Len(adds) = 2
            /\ Len(writes) = 1
            /\ made = <<adds[1], adds[2], writes[1]>>
            /\ CreatesPerson(adds[1])
            /\ \A i \in 1..Len(legacyLog') :
                 (AddsTo(legacyLog'[i], "people") /\ legacyLog'[i].id = adds[1].id
                  /\ legacyLog'[i] # adds[1]) => ~CreatesPerson(legacyLog'[i])
            /\ AddsTo(adds[2], "peopleIds")
            /\ adds[2].data = [identifier |-> identifierOf(c.entryData),
                               id |-> adds[1].id]
            /\ peopleIds'[adds[2].id] = adds[2].data
            /\ writes[1].personId = adds[1].id
            /\ c.personId = adds[1].id]_vars

\* a call has created a person, then the mapping to it, then written the
\* entry under its id and returned it
C35_Witness ==
  \E i, j, k \in 1..Len(legacyLog) :
    /\ i < j /\ j < k /\ k < Len(legacyLog)
    /\ CreatesPerson(legacyLog[i])
    /\ AddsTo(legacyLog[j], "peopleIds")
    /\ legacyLog[j].call = legacyLog[i].call
    /\ legacyLog[j].data.id = legacyLog[i].id
    /\ legacyLog[k].event = "addSubcollectionDocument"
    /\ legacyLog[k].call = legacyLog[i].call
    /\ legacyLog[k].personId = legacyLog[i].id
    /\ legacyLog[k + 1] = [call |-> legacyLog[i].call, event |-> "return",
                           value |-> legacyLog[i].id]


\* C36: the people document created for a new person has the fields name and
\* memo and no other, the memo being '' when the name has a last name.
C36_NewPersonNameAndMemo ==
  [][\A c \in handlerCalls :
       CreatePerson(c) =>
         LET created == legacyPeople'[Len(legacyPeople')]
         IN /\ DOMAIN created = {"name", "memo"}
            /\ hasLastName(created.name) => created.memo = Empty]_vars


\* C37: whatever the interleaving of the saveEntry and upsertPerson calls,
\* failed calls included, the store holds at most one people document and at
\* most one peopleIds mapping per identifier (stated for handlers created
\* with getDocumentsByField, which can look the identifier up).
C37_OnePersonPerIdentifier ==
  hasQuery =>
    /\ \A p, q \in 1..Len(legacyPeople) :
         (/\ storeAccepts(personFields(legacyPeople[p]))
          /\ storeAccepts(personFields(legacyPeople[q]))
          /\ identifierOf(legacyPeople[p]) = identifierOf(legacyPeople[q]))
         => p = q
    /\ \A m, n \in 1..Len(peopleIds) :
         peopleIds[m].identifier = peopleIds[n].identifier => m = n


\* the clientIds of list, in list order
IdsOf(list) == [i \in 1..Len(list) |-> list[i].clientId]

\* the clientIds of list that target also holds, in list order
IdsSharedWith(list, target) ==
  SelectSeq(IdsOf(list), LAMBDA id : id \in ClientIds(target))

\* no local id beyond the last one handed out is in use, and, until the load
\* has been applied, no card is keyed by an encounter: an id that is new to the
\* list and is the next local id, or an encounter key brought by the load, was
\* never the id of an earlier card
NoIdAhead ==
  \A i \in 1..Len(cards) :
    /\ cards[i].clientId[1] = "local" => cards[i].clientId[2] <= clientSeq
    /\ cards[i].clientId[1] = "enc" => loadPc = "done"

\* an edit, a recomputation of the list or a completion of a save: the cards
\* that stay keep their ids and their order, a card that has content, an
\* encounter or a person after the step was in the list under the same id
\* before it, and the only new id is the next local id, on a blank last card
KeepsClientIds ==
  /\ IdsSharedWith(cards', cards) = IdsSharedWith(cards, cards')
  /\ \A j \in 1..Len(cards') :
       cards'[j].clientId \notin ClientIds(cards)
       => /\ cards'[j].clientId = LocalId(clientSeq + 1)
          /\ clientSeq' = clientSeq + 1
          /\ j = Len(cards')
          /\ isBlankCard(cards'[j])

\* the load replaces the list: its cards are keyed by their encounter, or by
\* the next local id
LoadsUnusedIds ==
  \A j \in 1..Len(cards') :
    \/ cards'[j].clientId[1] = "enc" /\ loadPc = "apply"
    \/ cards'[j].clientId = LocalId(clientSeq + 1) /\ clientSeq' = clientSeq + 1

\* C38: the cards of the list have pairwise distinct clientIds; through an
\* edit, a recomputation of the list invariant and a completion of a save
\* (the card gaining its encounterId included) every card that stays keeps its
\* clientId, and the id of a card that enters the list, there or at the load,
\* was never the id of an earlier card.
C38_ClientIdsDistinctStable ==
  /\ [](\A i, j \in 1..Len(cards) : cards[i].clientId = cards[j].clientId => i = j)
  /\ []NoIdAhead
  /\ [][IF loadPc' = loadPc THEN KeepsClientIds ELSE
        (loadPc' = "done" => LoadsUnusedIds)]_vars

\* the third local card heads the list under its own id, with the encounterId
\* its save gave it, after the card before it was cleared and dropped and a
\* blank card was appended behind it
C38_Witness ==
  /\ Len(cards) = 2
  /\ cards[1].clientId = LocalId(3)
  /\ cards[1].encounterId # 0
  /\ cards[2].clientId = LocalId(4)


\* what an edit of another card must leave alone
Kept(card) ==
  [clientId |-> card.clientId, encounterId |-> card.encounterId,
   personId |-> card.personId, personName |-> card.personName,
   memo |-> card.memo, placeLabel |-> card.placeLabel, facts |-> card.facts]

\* the step is an edit of the card at index i of the list
EditFrame(i) ==
  LET edited == cards[i].clientId
      last == cards[Len(cards)]
  IN \* the cards that stay keep their relative order
     /\ IdsSharedWith(cards', cards) = IdsSharedWith(cards, cards')
     \* every other card that is not blank stays, with the same content and ids
     /\ \A j \in 1..Len(cards) :
          (j # i /\ ~isBlankCard(cards[j]))
          => \E k \in 1..Len(cards') : Kept(cards'[k]) = Kept(cards[j])
     \* a card that stays other than the edited one is unchanged
     /\ \A j \in 1..Len(cards), k \in 1..Len(cards') :
          (j # i /\ cards'[k].clientId = cards[j].clientId)
          => Kept(cards'[k]) = Kept(cards[j])
     \* a card that leaves is a blank interior card
     /\ \A j \in 1..Len(cards) :
          cards[j].clientId \notin ClientIds(cards')
          => /\ j < Len(cards)
             /\ j = i \/ isBlankCard(cards[j])
     \* a card that enters is one blank card, appended when the last card,
     \* blank before the edit, is the edited one and is no longer blank
     /\ \A k \in 1..Len(cards') :
          cards'[k].clientId \notin ClientIds(cards)
          => /\ k = Len(cards')
             /\ isBlankCard(cards'[k])
             /\ i = Len(cards)
             /\ isBlankCard(last)
             /\ Len(cards') >= 2
             /\ cards'[k - 1].clientId = edited
             /\ ~isBlankCard(cards'[k - 1])

\* C39: an edit of one card leaves the name, memo, place, facts, ids and
\* relative order of every other non-blank card unchanged; besides the edited
\* card, the list changes only by the removal of blank interior cards and by
\* one blank card appended when the last card stops being blank.
C39_EditFrame ==
  [][edits' = edits + 1 => \E i \in 1..Len(cards) : EditFrame(i)]_vars

\* an edit of the last card of a list that holds other cards with content has
\* made it non-blank, and a blank card stands behind it
C39_Witness ==
  /\ Len(cards) >= 3
  /\ edits >= 2
  /\ \A k \in 1..(Len(cards) - 1) : hasMeaningfulContent(cards[k])
  /\ isBlankCard(cards[Len(cards)])


\* C40: every timer that is armed is recorded in timersRef under the key of
\* its card; no step deletes or leaves stale the entry of a timer that is
\* still armed.
C40_ArmedTimersRecorded ==
  \A t \in armed : t.key \in DOMAIN timersRef /\ timersRef[t.key] = t.id

=============================================================================
